---- MODULE Spec2Model ----
(***************************************************************************)
(* Model of validate_gem.py: the structure validator of the RouteExtract   *)
(* gem (validate_gem_structure), its line counter (count_lines_of_code)    *)
(* and main.  The filesystem the script queries is part of the state; the  *)
(* script itself is one sequential process whose position is pc.           *)
(***************************************************************************)
EXTENDS Integers, Sequences, FiniteSets, TLC

\* ------------------------------------------------------------- bounds
\* At most this many deviations from the complete gem layout in an initial
\* filesystem.
MaxFaults == 2
\* At most this many files removed by another process during a run.
MaxDeletes == 1

\* ------------------------------------------------------------- rule set
required_items ==
  << [type |-> "file", path |-> "lib/route_extract.rb"],
     [type |-> "file", path |-> "lib/route_extract/version.rb"],
     [type |-> "file", path |-> "lib/route_extract/configuration.rb"],
     [type |-> "file", path |-> "lib/route_extract/route_analyzer.rb"],
     [type |-> "file", path |-> "lib/route_extract/code_extractor.rb"],
     [type |-> "file", path |-> "lib/route_extract/dependency_tracker.rb"],
     [type |-> "file", path |-> "lib/route_extract/gem_analyzer.rb"],
     [type |-> "file", path |-> "lib/route_extract/file_analyzer.rb"],
     [type |-> "file", path |-> "lib/route_extract/extract_manager.rb"],
     [type |-> "file", path |-> "lib/route_extract/cli.rb"],
     [type |-> "file", path |-> "lib/route_extract/railtie.rb"],
     [type |-> "dir",  path |-> "lib/route_extract/generators"],
     [type |-> "dir",  path |-> "lib/route_extract/tasks"],
     [type |-> "file", path |-> "exe/route_extract"],
     [type |-> "file", path |-> "route_extract.gemspec"],
     [type |-> "file", path |-> "README.md"],
     [type |-> "file", path |-> "LICENSE.txt"],
     [type |-> "file", path |-> "CHANGELOG.md"],
     [type |-> "file", path |-> "Gemfile"],
     [type |-> "file", path |-> "Rakefile"],
     [type |-> "dir",  path |-> "spec"],
     [type |-> "dir",  path |-> "docs"],
     [type |-> "dir",  path |-> "examples"] >>

version_file == "lib/route_extract/version.rb"
gemspec_file == "route_extract.gemspec"
executable   == "exe/route_extract"
entry_file   == "lib/route_extract.rb"

doc_files     == << "docs/user_guide.md", "docs/api_reference.md" >>
example_files == << "examples/basic_usage.rb", "examples/advanced_usage.rb" >>
test_files    ==
  << "spec/route_extract_spec.rb",
     "spec/route_extract/configuration_spec.rb",
     "spec/route_extract/route_analyzer_spec.rb",
     "spec/route_extract/cli_spec.rb",
     "spec/integration/basic_functionality_spec.rb" >>

DocMinSize == 1000
ExampleMinSize == 500
TestMinSize == 500

\* The literal substrings the content phase searches for.
VersionMarker == "VERSION = \"0.1.0\""
SpecNameMarker == "spec.name"
GemNameMarker == "route_extract"
\* Substrings of the entry file and of the executable that the script never
\* searches for; they are part of the files' contents all the same.
ModuleMarker == "module RouteExtract"
CliMarker == "RouteExtract::CLI.start"

Range(s) == { s[k] : k \in 1..Len(s) }

RequiredPaths == { required_items[k].path : k \in 1..Len(required_items) }
SizeFiles == Range(doc_files) \cup Range(example_files) \cup Range(test_files)
ContentFiles == { version_file, gemspec_file, entry_file, executable }

\* ------------------------------------------------------------- the tree
\* Files that a gem may hold beside the required ones.
ExtraFiles ==
  { "lib/route_extract/generators/install_generator.rb",
    "lib/route_extract/tasks/route_extract.rake",
    "spec/spec_helper.rb",
    "docs/notes.txt" }

ImpliedDirs == { "lib", "lib/route_extract", "exe", "spec/route_extract",
                 "spec/integration" }

Paths == RequiredPaths \cup SizeFiles \cup ExtraFiles \cup ImpliedDirs

Root == "."

\* The directory holding a path (os.path.dirname).
Parent(p) ==
  CASE p \in { "lib/route_extract.rb", "lib/route_extract" } -> "lib"
    [] p \in { "lib/route_extract/version.rb",
               "lib/route_extract/configuration.rb",
               "lib/route_extract/route_analyzer.rb",
               "lib/route_extract/code_extractor.rb",
               "lib/route_extract/dependency_tracker.rb",
               "lib/route_extract/gem_analyzer.rb",
               "lib/route_extract/file_analyzer.rb",
               "lib/route_extract/extract_manager.rb",
               "lib/route_extract/cli.rb",
               "lib/route_extract/railtie.rb",
               "lib/route_extract/generators",
               "lib/route_extract/tasks" } -> "lib/route_extract"
    [] p = "lib/route_extract/generators/install_generator.rb"
         -> "lib/route_extract/generators"
    [] p = "lib/route_extract/tasks/route_extract.rake"
         -> "lib/route_extract/tasks"
    [] p = "exe/route_extract" -> "exe"
    [] p \in { "docs/user_guide.md", "docs/api_reference.md",
               "docs/notes.txt" } -> "docs"
    [] p \in { "examples/basic_usage.rb", "examples/advanced_usage.rb" }
         -> "examples"
    [] p \in { "spec/route_extract_spec.rb", "spec/spec_helper.rb",
               "spec/route_extract", "spec/integration" } -> "spec"
    [] p \in { "spec/route_extract/configuration_spec.rb",
               "spec/route_extract/route_analyzer_spec.rb",
               "spec/route_extract/cli_spec.rb" } -> "spec/route_extract"
    [] p = "spec/integration/basic_functionality_spec.rb"
         -> "spec/integration"
    [] OTHER -> Root

\* The extension of a path's last component (what str.endswith tests).
Suffix(p) ==
  CASE p \in { "README.md", "CHANGELOG.md", "docs/user_guide.md",
               "docs/api_reference.md" } -> ".md"
    [] p \in { "LICENSE.txt", "docs/notes.txt" } -> ".txt"
    [] p = "lib/route_extract/tasks/route_extract.rake" -> ".rake"
    [] p = "route_extract.gemspec" -> ".gemspec"
    [] p \in { "Gemfile", "Rakefile", "exe/route_extract" } -> ""
    [] p \in ImpliedDirs \cup
             { "lib/route_extract/generators", "lib/route_extract/tasks",
               "spec", "docs", "examples" } -> ""
    [] OTHER -> ".rb"

\* Number of lines of each file (len(f.readlines())).
Lines(p) ==
  CASE p = "lib/route_extract.rb" -> 7
    [] p = "lib/route_extract/version.rb" -> 1
    [] p = "lib/route_extract/cli.rb" -> 5
    [] p = "lib/route_extract/generators/install_generator.rb" -> 4
    [] p = "lib/route_extract/tasks/route_extract.rake" -> 9
    [] p = "spec/spec_helper.rb" -> 2
    [] p = "docs/user_guide.md" -> 6
    [] p = "docs/notes.txt" -> 8
    [] OTHER -> 3

RECURSIVE Ancestors(_)
Ancestors(p) ==
  IF Parent(p) = Root THEN {} ELSE { Parent(p) } \cup Ancestors(Parent(p))

\* The complete gem layout.
BaseKind(p) ==
  IF p \in ExtraFiles THEN "absent"
  ELSE IF p \in ImpliedDirs \/
          \E k \in 1..Len(required_items) :
             required_items[k].path = p /\ required_items[k].type = "dir"
       THEN "dir"
       ELSE "file"

BaseSize(p) == IF p \in Range(doc_files) THEN 1500 ELSE 501

BaseTokens(p) ==
  CASE p = version_file -> { VersionMarker }
    [] p = gemspec_file -> { SpecNameMarker, GemNameMarker }
    [] p = entry_file -> { ModuleMarker }
    [] p = executable -> { CliMarker }

\* ------------------------------------------------------------- deviations
Dev(d, p, n, t) == [d |-> d, p |-> p, n |-> n, t |-> t]

AbsentPaths ==
  RequiredPaths \cup
  { "docs/user_guide.md", "examples/basic_usage.rb",
    "spec/integration/basic_functionality_spec.rb" }

Deviations ==
  { Dev("absent", p, 0, "") : p \in AbsentPaths }
  \cup { Dev("wrongkind", p, 0, "") :
           p \in { "lib/route_extract/cli.rb", "docs" } }
  \cup { Dev("present", p, 0, "") : p \in ExtraFiles }
  \cup { Dev("unreadable", p, 0, "") :
           p \in { version_file, gemspec_file, entry_file,
                   "spec/route_extract_spec.rb", "docs/user_guide.md" } }
  \cup { Dev("noexec", executable, 0, "") }
  \cup { Dev("lacks", version_file, 0, VersionMarker),
         Dev("lacks", gemspec_file, 0, SpecNameMarker),
         Dev("lacks", gemspec_file, 0, GemNameMarker),
         Dev("lacks", entry_file, 0, ModuleMarker),
         Dev("lacks", executable, 0, CliMarker) }
  \cup { Dev("size", "docs/user_guide.md", 1000, ""),
         Dev("size", "docs/user_guide.md", 1001, ""),
         Dev("size", "docs/api_reference.md", 200, ""),
         Dev("size", "examples/advanced_usage.rb", 500, ""),
         Dev("size", "spec/route_extract_spec.rb", 500, ""),
         Dev("size", "spec/route_extract/cli_spec.rb", 0, "") }

RECURSIVE UpTo(_, _)
\* The subsets of S with at most k elements.
UpTo(S, k) ==
  IF k = 0 THEN { {} }
  ELSE LET prev == UpTo(S, k - 1)
       IN  prev \cup { T \cup { x } : T \in prev, x \in S }

\* The filesystem that deviates from the complete layout by F.
Layout(F) ==
  LET has(d, p) == \E f \in F : f.d = d /\ f.p = p
      kind0(p) ==
        IF has("absent", p) THEN "absent"
        ELSE IF has("wrongkind", p)
             THEN (IF BaseKind(p) = "file" THEN "dir" ELSE "file")
             ELSE IF has("present", p) THEN "file" ELSE BaseKind(p)
      k(p) == IF \E a \in Ancestors(p) : kind0(a) # "dir"
              THEN "absent" ELSE kind0(p)
  IN  [ kind |-> [ p \in Paths |-> k(p) ],
        unreadable |-> { p \in Paths : has("unreadable", p) },
        noexec |-> { p \in Paths : has("noexec", p) },
        size |-> [ p \in SizeFiles |->
                     IF \E f \in F : f.d = "size" /\ f.p = p
                     THEN (CHOOSE f \in F : f.d = "size" /\ f.p = p).n
                     ELSE BaseSize(p) ],
        tokens |-> [ p \in ContentFiles |->
                       BaseTokens(p) \ { f.t : f \in { g \in F :
                                           g.d = "lacks" /\ g.p = p } } ] ]

\* No two deviations of F give one file two sizes.
Coherent(F) ==
  \A f, g \in F : (f.d = "size" /\ g.d = "size" /\ f.p = g.p) => f = g

\* ------------------------------------------------------------- state
VARIABLES
  fs,             \* the filesystem under the package root
  pc,             \* position of the script
  i,              \* index of the loop over required_items
  j,              \* index of the size loop the script is in
  missing_items,  \* validate_gem_structure's list of missing items
  result,         \* what validate_gem_structure returned to main
  out,            \* the lines written to standard output, in order
  exit_status,    \* the process's exit status, -1 while it runs
  walkStack,      \* os.walk: directories still to visit, innermost first
  walkFiles,      \* os.walk: files of the directory being visited, unread
  counts,         \* count_lines_of_code's accumulators, per category
  deletes         \* files another process has removed during the run

vars == << fs, pc, i, j, missing_items, result, out, exit_status,
           walkStack, walkFiles, counts, deletes >>

\* ------------------------------------------------------------- probes
isfile(p) == fs.kind[p] = "file"

isdir(p) == fs.kind[p] = "dir"

\* os.access(p, os.X_OK): false for a path that does not exist.
access_X_OK(p) == fs.kind[p] # "absent" /\ p \notin fs.noexec

\* open(p, 'r') followed by a read of the whole file succeeds.
CanRead(p) == fs.kind[p] = "file" /\ p \notin fs.unreadable

\* marker in f.read()
Contains(p, marker) == marker \in fs.tokens[p]

\* os.path.getsize(p) raises OSError for a path that does not exist.
GetsizeRaises(p) == fs.kind[p] = "absent"

getsize(p) == fs.size[p]

\* ------------------------------------------------------------- output
Title == "RouteExtract Gem Structure Validation"
Rule40 == "========================================"
MissingHeader == "FAIL: Missing required items:"
AllPresent == "PASS: All required files and directories present"
ContentsHeader == "Validating file contents..."
StatsHeader == "Code Statistics:"
Rule20 == "--------------------"
FailedVerdict == "Validation FAILED!"
PassedVerdict == "Validation PASSED!"
NextSteps ==
  << "The RouteExtract gem structure is valid and ready for packaging.",
     "Next steps:",
     "1. Build the gem: gem build route_extract.gemspec",
     "2. Install locally: gem install route_extract-*.gem",
     "3. Test in a Rails application" >>

FileLabel(path) == "File: " \o path

DirLabel(path) == "Directory: " \o path

SizePass(f) == "PASS: " \o f \o " exists and has content"

SizeFail(f) == "FAIL: " \o f \o " missing or too small"

VersionPass == "PASS: Version file contains correct version"
VersionFail == "FAIL: Version file missing or incorrect"
VersionError == "FAIL: Error reading version file"
GemspecPass == "PASS: Gemspec file appears valid"
GemspecFail == "FAIL: Gemspec file missing or incorrect"
GemspecError == "FAIL: Error reading gemspec file"
ExecPass == "PASS: CLI executable has correct permissions"
ExecFail == "FAIL: CLI executable missing execute permissions"

\* ------------------------------------------------------------- categories
Categories == << "lib", "spec", "docs" >>

CatExt(c) == IF c = "docs" THEN ".md" ELSE ".rb"

CatPc(c) == "walk_" \o c

TotalLine(c, n) ==
  CASE c = "lib" ->
         "Total: " \o ToString(n.files) \o " Ruby files, "
           \o ToString(n.lines) \o " lines of code"
    [] c = "spec" ->
         "Tests: " \o ToString(n.files) \o " test files, "
           \o ToString(n.lines) \o " lines of test code"
    [] c = "docs" ->
         "Documentation: " \o ToString(n.files) \o " markdown files, "
           \o ToString(n.lines) \o " lines"

Zero == [files |-> 0, lines |-> 0]

\* ------------------------------------------------------------- Init
InitRun ==
  /\ pc = "start"
  /\ i = 0
  /\ j = 0
  /\ missing_items = << >>
  /\ result = "none"
  /\ out = << >>
  /\ exit_status = -1
  /\ walkStack = << >>
  /\ walkFiles = {}
  /\ counts = [ c \in Range(Categories) |-> Zero ]
  /\ deletes = 0

Init ==
  /\ \E F \in UpTo(Deviations, MaxFaults) : Coherent(F) /\ fs = Layout(F)
  /\ InitRun

InitRace ==
  /\ fs = Layout({})
  /\ InitRun

\* ------------------------------------------------------------- validate_gem_structure
Enter ==
  /\ pc = "start"
  /\ out' = out \o << Title, Rule40 >>
  /\ missing_items' = << >>
  /\ i' = 1
  /\ pc' = "required_items"
  /\ UNCHANGED << j, fs, result, exit_status, walkStack, walkFiles, counts,
                  deletes >>

\* Mutant of Missing: the directory branch is lost.
MissingFilesOnly(item) ==
  IF item.type = "file" /\ ~ isfile(item.path)
  THEN << FileLabel(item.path) >>
  ELSE << >>

\* One iteration of the loop over required_items.
Missing(item) ==
  IF item.type = "file" /\ ~ isfile(item.path)
  THEN << FileLabel(item.path) >>
  ELSE IF item.type = "dir" /\ ~ isdir(item.path)
       THEN << DirLabel(item.path) >>
       ELSE << >>

\* Mutant of CheckItem: the loop stops at the first missing item.
CheckItemBreaks ==
  /\ pc = "required_items"
  /\ i <= Len(required_items)
  /\ missing_items' = missing_items \o Missing(required_items[i])
  /\ i' = IF Missing(required_items[i]) = << >>
          THEN i + 1 ELSE Len(required_items) + 1
  /\ UNCHANGED << j, fs, pc, result, out, exit_status, walkStack, walkFiles,
                  counts, deletes >>

CheckItem ==
  /\ pc = "required_items"
  /\ i <= Len(required_items)
  /\ missing_items' = missing_items \o Missing(required_items[i])
  /\ i' = i + 1
  /\ UNCHANGED << j, fs, pc, result, out, exit_status, walkStack, walkFiles,
                  counts, deletes >>

ItemLines == [ k \in 1..Len(missing_items) |-> "  - " \o missing_items[k] ]

\* Mutant of StructVerdict: the report of the missing items does not return.
StructVerdictNoReturn ==
  /\ pc = "required_items"
  /\ i > Len(required_items)
  /\ IF missing_items # << >>
     THEN out' = out \o << MissingHeader >> \o ItemLines \o << ContentsHeader >>
     ELSE out' = out \o << AllPresent, ContentsHeader >>
  /\ pc' = "version"
  /\ UNCHANGED << j, fs, i, missing_items, result, exit_status, walkStack,
                  walkFiles, counts, deletes >>

StructVerdict ==
  /\ pc = "required_items"
  /\ i > Len(required_items)
  /\ IF missing_items # << >>
     THEN /\ out' = out \o << MissingHeader >> \o ItemLines
          /\ result' = "False"
          /\ pc' = "main"
     ELSE /\ out' = out \o << AllPresent, ContentsHeader >>
          /\ result' = result
          /\ pc' = "version"
  /\ UNCHANGED << j, fs, i, missing_items, exit_status, walkStack, walkFiles,
                  counts, deletes >>

\* A content or size check printed `line` and passed on to `next`.
Passes(line, next, idx) ==
  /\ out' = out \o << line >>
  /\ pc' = next
  /\ j' = idx
  /\ result' = result

\* A content or size check printed `line` and returned False.
Fails(line) ==
  /\ out' = out \o << line >>
  /\ pc' = "main"
  /\ j' = j
  /\ result' = "False"

CheckVersion ==
  /\ pc = "version"
  /\ IF CanRead(version_file)
     THEN IF Contains(version_file, VersionMarker)
          THEN Passes(VersionPass, "gemspec", j)
          ELSE Fails(VersionFail)
     ELSE Fails(VersionError)
  /\ UNCHANGED << fs, i, missing_items, exit_status, walkStack, walkFiles,
                  counts, deletes >>

\* Mutant of CheckGemspec: a failure is printed and the checks go on.
CheckGemspecNoReturn ==
  /\ pc = "gemspec"
  /\ IF CanRead(gemspec_file)
     THEN IF Contains(gemspec_file, SpecNameMarker)
             /\ Contains(gemspec_file, GemNameMarker)
          THEN Passes(GemspecPass, "executable", j)
          ELSE Passes(GemspecFail, "executable", j)
     ELSE Passes(GemspecError, "executable", j)
  /\ UNCHANGED << fs, i, missing_items, exit_status, walkStack, walkFiles,
                  counts, deletes >>

\* Mutant of CheckGemspec: either marker is enough.
CheckGemspecEither ==
  /\ pc = "gemspec"
  /\ IF CanRead(gemspec_file)
     THEN IF Contains(gemspec_file, SpecNameMarker)
             \/ Contains(gemspec_file, GemNameMarker)
          THEN Passes(GemspecPass, "executable", j)
          ELSE Fails(GemspecFail)
     ELSE Fails(GemspecError)
  /\ UNCHANGED << fs, i, missing_items, exit_status, walkStack, walkFiles,
                  counts, deletes >>

CheckGemspec ==
  /\ pc = "gemspec"
  /\ IF CanRead(gemspec_file)
     THEN IF Contains(gemspec_file, SpecNameMarker)
             /\ Contains(gemspec_file, GemNameMarker)
          THEN Passes(GemspecPass, "executable", j)
          ELSE Fails(GemspecFail)
     ELSE Fails(GemspecError)
  /\ UNCHANGED << fs, i, missing_items, exit_status, walkStack, walkFiles,
                  counts, deletes >>

CheckExecutable ==
  /\ pc = "executable"
  /\ IF access_X_OK(executable)
     THEN Passes(ExecPass, "doc_files", 1)
     ELSE Fails(ExecFail)
  /\ UNCHANGED << fs, i, missing_items, exit_status, walkStack, walkFiles,
                  counts, deletes >>

\* The three size loops, in the order the script runs them.
SizeLoops == << "doc_files", "example_files", "test_files" >>

LoopFiles(loop) ==
  CASE loop = "doc_files" -> doc_files
    [] loop = "example_files" -> example_files
    [] loop = "test_files" -> test_files

\* Mutant of LoopMin: the documentation threshold copied to every loop.
LoopMinCopied(loop) == DocMinSize

LoopMin(loop) ==
  CASE loop = "doc_files" -> DocMinSize
    [] loop = "example_files" -> ExampleMinSize
    [] loop = "test_files" -> TestMinSize

AfterLoop(loop) ==
  CASE loop = "doc_files" -> "example_files"
    [] loop = "example_files" -> "test_files"
    [] loop = "test_files" -> "return"

GetsizePc(loop) == loop \o ".getsize"

\* Mutant of BigEnough: the threshold itself passes.
AtLeast(size, min) == size >= min

\* The comparison of a size check.
BigEnough(size, min) == size > min

\* os.path.isfile(f), the left operand of the size check.
SizeIsFile(loop) ==
  /\ pc = loop
  /\ IF isfile(LoopFiles(loop)[j])
     THEN /\ pc' = GetsizePc(loop)
          /\ UNCHANGED << out, j, result >>
     ELSE Fails(SizeFail(LoopFiles(loop)[j]))
  /\ UNCHANGED << fs, i, missing_items, exit_status, walkStack, walkFiles,
                  counts, deletes >>

\* os.path.getsize(f) > min, the right operand; an OSError raised by getsize
\* is caught nowhere and ends the process with a traceback and status 1.
SizeGetSize(loop) ==
  /\ pc = GetsizePc(loop)
  /\ LET f == LoopFiles(loop)[j]
     IN  IF GetsizeRaises(f)
         THEN /\ pc' = "exited"
              /\ result' = "raised"
              /\ exit_status' = 1
              /\ UNCHANGED << out, j >>
         ELSE /\ IF BigEnough(getsize(f), LoopMin(loop))
                 THEN IF j < Len(LoopFiles(loop))
                      THEN Passes(SizePass(f), loop, j + 1)
                      ELSE Passes(SizePass(f), AfterLoop(loop), 1)
                 ELSE Fails(SizeFail(f))
              /\ exit_status' = exit_status
  /\ UNCHANGED << fs, i, missing_items, walkStack, walkFiles, counts, deletes >>

ReturnTrue ==
  /\ pc = "return"
  /\ result' = "True"
  /\ pc' = "main"
  /\ UNCHANGED << j, fs, i, missing_items, out, exit_status, walkStack,
                  walkFiles, counts, deletes >>

\* ------------------------------------------------------------- main
MainFailed ==
  /\ pc = "main"
  /\ result = "False"
  /\ out' = out \o << Rule40, FailedVerdict >>
  /\ exit_status' = 1
  /\ pc' = "exited"
  /\ UNCHANGED << j, fs, i, missing_items, result, walkStack, walkFiles, counts,
                  deletes >>

MainCount ==
  /\ pc = "main"
  /\ result = "True"
  /\ out' = out \o << StatsHeader, Rule20 >>
  /\ counts' = [counts EXCEPT !["lib"] = Zero]
  /\ walkStack' = << { "lib" } >>
  /\ walkFiles' = {}
  /\ pc' = CatPc("lib")
  /\ UNCHANGED << j, fs, i, missing_items, result, exit_status, deletes >>

MainPassed ==
  /\ pc = "passed"
  /\ out' = out \o << Rule40, PassedVerdict >> \o NextSteps
  /\ exit_status' = 0
  /\ pc' = "exited"
  /\ UNCHANGED << j, fs, i, missing_items, result, walkStack, walkFiles, counts,
                  deletes >>

\* ------------------------------------------------------------- count_lines_of_code
Push(S, stack) == IF S = {} THEN stack ELSE << S >> \o stack

\* os.walk enters a directory: it lists it, hands its files to the loop body
\* and keeps its subdirectories to enter next.  A directory that cannot be
\* listed yields nothing.
WalkDir(c) ==
  /\ pc = CatPc(c)
  /\ walkFiles = {}
  /\ walkStack # << >>
  /\ \E d \in Head(walkStack) :
       LET listed == IF isdir(d) THEN { p \in Paths : Parent(p) = d } ELSE {}
       IN  /\ walkFiles' = { p \in listed : isfile(p) }
           /\ walkStack' = Push({ p \in listed : isdir(p) },
                                Push(Head(walkStack) \ { d },
                                     Tail(walkStack)))
  /\ UNCHANGED << j, fs, pc, i, missing_items, result, out, exit_status, counts,
                  deletes >>

\* Mutant of Counted: the file is counted before it is read.
CountedUnread(c, f) ==
  IF Suffix(f) = CatExt(c)
  THEN [counts EXCEPT ![c] = [files |-> @.files + 1,
                              lines |-> @.lines +
                                          (IF CanRead(f) THEN Lines(f) ELSE 0)]]
  ELSE counts

\* The accumulators after the loop body has handled file f.
Counted(c, f) ==
  IF Suffix(f) = CatExt(c) /\ CanRead(f)
  THEN [counts EXCEPT ![c] = [files |-> @.files + 1,
                              lines |-> @.lines + Lines(f)]]
  ELSE counts

\* The loop body for one file of the directory being visited.  (The line the
\* lib loop prints per file is not kept in out.)
WalkFile(c) ==
  /\ pc = CatPc(c)
  /\ \E f \in walkFiles :
       /\ counts' = Counted(c, f)
       /\ walkFiles' = walkFiles \ { f }
  /\ UNCHANGED << j, fs, pc, i, missing_items, result, out, exit_status,
                  walkStack, deletes >>

\* The walk of one category is over: its totals are printed and the next
\* category's accumulators are set to zero.
WalkEnd(c) ==
  /\ pc = CatPc(c)
  /\ walkFiles = {}
  /\ walkStack = << >>
  /\ out' = out \o << TotalLine(c, counts[c]) >>
  /\ IF c = "docs"
     THEN /\ pc' = "passed"
          /\ UNCHANGED << counts, walkStack >>
     ELSE LET n == IF c = "lib" THEN "spec" ELSE "docs"
          IN  /\ pc' = CatPc(n)
              /\ counts' = [counts EXCEPT ![n] = Zero]
              /\ walkStack' = << { n } >>
  /\ UNCHANGED << j, fs, i, missing_items, result, exit_status, walkFiles,
                  deletes >>

\* ------------------------------------------------------------- environment
\* Files another process may remove while the script runs.
RacePaths == SizeFiles \cup { version_file, gemspec_file, executable }

EnvDelete ==
  /\ pc # "exited"
  /\ deletes < MaxDeletes
  /\ \E p \in RacePaths :
       /\ isfile(p)
       /\ fs' = [fs EXCEPT !.kind[p] = "absent"]
  /\ deletes' = deletes + 1
  /\ UNCHANGED << j, pc, i, missing_items, result, out, exit_status, walkStack,
                  walkFiles, counts >>

\* ------------------------------------------------------------- specifications
Next ==
  \/ Enter
  \/ CheckItem
  \/ StructVerdict
  \/ CheckVersion
  \/ CheckGemspec
  \/ CheckExecutable
  \/ \E loop \in Range(SizeLoops) : SizeIsFile(loop)
  \/ \E loop \in Range(SizeLoops) : SizeGetSize(loop)
  \/ ReturnTrue
  \/ MainFailed
  \/ MainCount
  \/ \E c \in Range(Categories) : WalkDir(c)
  \/ \E c \in Range(Categories) : WalkFile(c)
  \/ \E c \in Range(Categories) : WalkEnd(c)
  \/ MainPassed

NextRace == Next \/ EnvDelete

\* The script alone on an unchanging filesystem.
Spec == Init /\ [][Next]_vars

\* The script with another process removing files under it.
SpecRace == InitRace /\ [][NextRace]_vars

\* ------------------------------------------------------------- observations
\* What the properties below read: the filesystem itself (never through the
\* script's probes) and the script's output and variables.
InOut(line) == \E n \in 1..Len(out) : out[n] = line

Occurrences(line) == Cardinality({ n \in 1..Len(out) : out[n] = line })

Returned == result # "none"

Exited == pc = "exited"

KindOf(type) == IF type = "file" THEN "file" ELSE "dir"

\* Item k of required_items exists with its declared kind.
Satisfied(k) ==
  fs.kind[required_items[k].path] = KindOf(required_items[k].type)

Unsatisfied == { k \in 1..Len(required_items) : ~ Satisfied(k) }

StructureComplete == Unsatisfied = {}

Labels ==
  [ k \in 1..Len(required_items) |->
      IF required_items[k].type = "file"
      THEN "File: " \o required_items[k].path
      ELSE "Directory: " \o required_items[k].path ]

LabelOf(k) == Labels[k]

RECURSIVE ExpectedMissing(_)
\* The labels of the unsatisfied items among the first n, in declaration order.
ExpectedMissing(n) ==
  IF n = 0 THEN << >>
  ELSE ExpectedMissing(n - 1) \o
       (IF Satisfied(n) THEN << >> ELSE << LabelOf(n) >>)

\* The twelve content and size checks: version file, gemspec, executable
\* permission, documentation files, example files, test files.
SizeSeq == doc_files \o example_files \o test_files

NumChecks == 3 + Len(SizeSeq)

Threshold(f) == IF f \in { "docs/user_guide.md", "docs/api_reference.md" }
                THEN 1000 ELSE 500

Readable(p) == fs.kind[p] = "file" /\ p \notin fs.unreadable

CheckOk(k) ==
  CASE k = 1 -> Readable(version_file)
                /\ VersionMarker \in fs.tokens[version_file]
    [] k = 2 -> Readable(gemspec_file)
                /\ { SpecNameMarker, GemNameMarker }
                     \subseteq fs.tokens[gemspec_file]
    [] k = 3 -> fs.kind[executable] # "absent" /\ executable \notin fs.noexec
    [] OTHER -> fs.kind[SizeSeq[k - 3]] = "file"
                /\ fs.size[SizeSeq[k - 3]] > Threshold(SizeSeq[k - 3])

PassLines ==
  [ k \in 1..NumChecks |->
      CASE k = 1 -> VersionPass
        [] k = 2 -> GemspecPass
        [] k = 3 -> ExecPass
        [] OTHER -> "PASS: " \o SizeSeq[k - 3] \o " exists and has content" ]

PassLine(k) == PassLines[k]

FailLineSets ==
  [ k \in 1..NumChecks |->
      CASE k = 1 -> { VersionFail, VersionError }
        [] k = 2 -> { GemspecFail, GemspecError }
        [] k = 3 -> { ExecFail }
        [] OTHER -> { "FAIL: " \o SizeSeq[k - 3] \o " missing or too small" } ]

FailLines(k) == FailLineSets[k]

CheckLines == UNION { { PassLine(k) } \cup FailLines(k) : k \in 1..NumChecks }

IsCheckLine(l) == l \in CheckLines

\* The lines the content and size checks have printed, in order: one line per
\* check evaluated.
ContentLog == SelectSeq(out, IsCheckLine)

FailingChecks == { k \in 1..NumChecks : ~ CheckOk(k) }

FirstFailing == CHOOSE k \in FailingChecks : \A m \in FailingChecks : k <= m

VerdictLines == { n \in 1..Len(out) : out[n] \in { FailedVerdict, PassedVerdict } }

\* ------------------------------------------------------------- C1
\* The three conditions the claim names: declared paths, content markers and
\* size thresholds.
DeclaredMarkersSizes ==
  /\ StructureComplete
  /\ VersionMarker \in fs.tokens[version_file]
  /\ { SpecNameMarker, GemNameMarker } \subseteq fs.tokens[gemspec_file]
  /\ ModuleMarker \in fs.tokens[entry_file]
  /\ CliMarker \in fs.tokens[executable]
  /\ \A f \in SizeFiles : fs.kind[f] = "file" /\ fs.size[f] > Threshold(f)

\* C1 as claimed: declared paths, content markers and size thresholds are all
\* a run needs to return True with an empty missing-items list.
C1_AsClaimed ==
  (DeclaredMarkersSizes /\ Returned) => (result = "True" /\ missing_items = << >>)

\* C1 as amended: with, in addition, the executable bit on exe/route_extract
\* and the version file and the gemspec readable, the run returns True, its
\* missing-items list is empty and main ends with the PASSED verdict and
\* status 0.
C1_PassWhenConforming ==
  ( /\ DeclaredMarkersSizes
    /\ executable \notin fs.noexec
    /\ version_file \notin fs.unreadable
    /\ gemspec_file \notin fs.unreadable )
  => /\ result \in { "none", "True" }
     /\ missing_items = << >>
     /\ pc \notin { "start", "required_items" } => InOut(AllPresent)
     /\ Exited => /\ result = "True"
                  /\ exit_status = 0
                  /\ InOut(PassedVerdict)
                  /\ ~ InOut(FailedVerdict)

C1_Witness ==
  /\ DeclaredMarkersSizes
  /\ executable \notin fs.noexec
  /\ { version_file, gemspec_file } \cap fs.unreadable = {}
  /\ Exited
  /\ result = "True"

\* ------------------------------------------------------------- C2
\* C2: the structural loop evaluates every entry; the missing-items list holds
\* the label of each unsatisfied entry once, in declaration order, and nothing
\* else; a run with an unsatisfied entry returns False and exits with 1.
C2_MissingItems ==
  /\ pc = "required_items" => missing_items = ExpectedMissing(i - 1)
  /\ pc \notin { "start", "required_items" } =>
       /\ i >= Len(required_items) + 1
       /\ missing_items = ExpectedMissing(Len(required_items))
       /\ \A k \in 1..Len(required_items) :
            Cardinality({ n \in 1..Len(missing_items) :
                            missing_items[n] = LabelOf(k) })
              = IF Satisfied(k) THEN 0 ELSE 1
       /\ ~ StructureComplete =>
            /\ result = "False"
            /\ InOut(MissingHeader)
            /\ \A k \in Unsatisfied : Occurrences("  - " \o LabelOf(k)) = 1
  /\ (Exited /\ ~ StructureComplete) =>
       (exit_status = 1 /\ InOut(FailedVerdict) /\ ~ InOut(PassedVerdict))

C2_Witness ==
  /\ Exited
  /\ Cardinality(Unsatisfied) = 2
  /\ \E k \in Unsatisfied : required_items[k].type = "dir"
  /\ \E k \in Unsatisfied : required_items[k].type = "file"
  /\ Len(missing_items) = 2

\* ------------------------------------------------------------- C3
\* C3: the content and size checks print their lines in the fixed order; every
\* line but the last is a pass; a failure is the last line and returns False;
\* a finished content phase has evaluated exactly the checks up to the first
\* failing one, or all of them when none fails.
C3_AbortOnFirstFailure ==
  LET log == ContentLog
  IN  /\ Len(log) <= NumChecks
      /\ \A k \in 1..Len(log) :
           /\ log[k] \in { PassLine(k) } \cup FailLines(k)
           /\ k < Len(log) => log[k] = PassLine(k)
           /\ log[k] = PassLine(k) => CheckOk(k)
           /\ log[k] \in FailLines(k) =>
                (~ CheckOk(k) /\ result = "False" /\ pc \in { "main", "exited" })
      /\ (StructureComplete /\ Returned) =>
           IF FailingChecks = {}
           THEN result = "True" /\ Len(log) = NumChecks
           ELSE /\ result = "False"
                /\ Len(log) = FirstFailing
                /\ log[Len(log)] \in FailLines(FirstFailing)

C3_Witness ==
  /\ StructureComplete
  /\ Exited
  /\ Cardinality(FailingChecks) = 2
  /\ 2 \in FailingChecks
  /\ Len(ContentLog) = 2

\* ------------------------------------------------------------- C4
CountsUntouched == \A c \in Range(Categories) : counts[c] = Zero

\* C4: with a non-empty missing-items list the run returns False after the
\* structural phase; no content or size check and no part of the statistics
\* phase is ever entered.  The content phase is entered only with an empty list.
C4_StopsAfterStructuralPhase ==
  /\ missing_items # << >> =>
       /\ pc \in { "required_items", "main", "exited" }
       /\ pc # "required_items" => result = "False"
       /\ ~ InOut(ContentsHeader)
       /\ ContentLog = << >>
       /\ ~ InOut(StatsHeader)
       /\ CountsUntouched
       /\ walkStack = << >> /\ walkFiles = {}
       /\ Exited => (exit_status = 1 /\ InOut(FailedVerdict))
  /\ (InOut(ContentsHeader) \/ ContentLog # << >> \/ InOut(StatsHeader)) =>
       (missing_items = << >> /\ StructureComplete)

C4_Witness ==
  /\ missing_items # << >>
  /\ Exited
  /\ result = "False"

\* ------------------------------------------------------------- C5
\* C5 as claimed: a finished run has printed exactly one verdict line, after
\* every diagnostic; it is PASSED with status 0 exactly when validation
\* returned True, and FAILED with status 1 in every other run.
C5_AsClaimed ==
  Exited =>
    /\ Cardinality(VerdictLines) = 1
    /\ \A v \in VerdictLines : \A n \in 1..Len(out) :
         (out[n] \in CheckLines \cup { MissingHeader, AllPresent, StatsHeader })
           => n < v
    /\ IF result = "True"
       THEN InOut(PassedVerdict) /\ exit_status = 0
       ELSE InOut(FailedVerdict) /\ exit_status = 1

\* ------------------------------------------------------------- C6
\* C6 as claimed: no run ends by an exception leaving validate_gem_structure
\* and main; every run ends by a return and a verdict.
C6_AsClaimed == result # "raised"

CheckedMarkerAbsent ==
  \/ VersionMarker \notin fs.tokens[version_file]
  \/ SpecNameMarker \notin fs.tokens[gemspec_file]
  \/ GemNameMarker \notin fs.tokens[gemspec_file]

GemspecIndex == CHOOSE k \in 1..Len(required_items) :
                  required_items[k].path = gemspec_file

GemspecLabel == "File: route_extract.gemspec"

\* Where the gemspec's label belongs in the missing-items list.
GemspecPlace == Cardinality(Unsatisfied \cap 1..GemspecIndex)

LabelAt(n) == IF n \in 1..Len(missing_items) THEN missing_items[n] ELSE ""

SizeLines ==
  [ f \in SizeFiles |->
      [ pass |-> "PASS: " \o f \o " exists and has content",
        fail |-> "FAIL: " \o f \o " missing or too small" ] ]

SizePassLine(f) == SizeLines[f].pass

SizeFailLine(f) == SizeLines[f].fail

\* C9: a size check passes exactly for a regular file of more bytes than its
\* threshold (1000 for the documentation files, 500 for the example and test
\* files); 1000 and 200 bytes fail and 1500 bytes pass the documentation
\* check, 500 bytes fail the others; a failing size check is the last check
\* of the run, which returns False and exits with FAILED and status 1.
C9_SizeChecks ==
  /\ BigEnough(1500, DocMinSize) /\ BigEnough(1001, DocMinSize)
  /\ ~ BigEnough(1000, DocMinSize) /\ ~ BigEnough(200, DocMinSize)
  /\ BigEnough(501, ExampleMinSize) /\ ~ BigEnough(500, ExampleMinSize)
  /\ BigEnough(501, TestMinSize) /\ ~ BigEnough(500, TestMinSize)
  /\ pc \in { "start", "required_items" } => Len(out) <= 2
  /\ pc \notin { "start", "required_items" } =>
       LET printed == Range(out)
           big(f) == fs.kind[f] = "file" /\ fs.size[f] > Threshold(f)
       IN  /\ \A f \in SizeFiles :
                /\ SizePassLine(f) \in printed => big(f)
                /\ SizeFailLine(f) \in printed =>
                     /\ ~ big(f)
                     /\ out[Len(out)] \in { SizeFailLine(f), FailedVerdict }
                     /\ ContentLog[Len(ContentLog)] = SizeFailLine(f)
                     /\ result = "False"
                     /\ pc \in { "main", "exited" }
                     /\ Exited => (exit_status = 1 /\ FailedVerdict \in printed
                                   /\ StatsHeader \notin printed)
                /\ result = "True" => SizePassLine(f) \in printed
           /\ (Returned /\ StructureComplete
                 /\ FailingChecks \cap 1..3 = {} /\ FailingChecks # {}) =>
                \E g \in SizeFiles :
                   /\ ~ big(g)
                   /\ SizeFailLine(g) \in printed
                   /\ SizeSeq[FirstFailing - 3] = g

C9_Witness ==
  /\ Exited
  /\ fs.kind["docs/user_guide.md"] = "file"
  /\ fs.size["docs/user_guide.md"] = 1000
  /\ InOut(SizeFailLine("docs/user_guide.md"))
  /\ result = "False"

\* ------------------------------------------------------------- C10
\* The paths under each category's root whose name ends with its extension.
Named ==
  [ c \in Range(Categories) |->
      { p \in Paths : /\ c \in Ancestors(p)
                      /\ Suffix(p) = (IF c = "docs" THEN ".md" ELSE ".rb") } ]

\* The readable files of category c: regular files under its root whose name
\* ends with its extension.
Eligible(c) ==
  { p \in Named[c] : fs.kind[p] = "file" /\ p \notin fs.unreadable }

RECURSIVE SumLines(_)
SumLines(S) ==
  IF S = {} THEN 0
  ELSE LET p == CHOOSE q \in S : TRUE IN Lines(p) + SumLines(S \ { p })

Walking == pc \in { "walk_lib", "walk_spec", "walk_docs" }

\* The walk of category c is over.
Walked(c) ==
  \/ pc = "passed"
  \/ Exited /\ result = "True"
  \/ c = "lib" /\ pc \in { "walk_spec", "walk_docs" }
  \/ c = "spec" /\ pc = "walk_docs"

\* C10: whatever the order of the walk, each category ends with the number
\* and the summed line counts of its readable files (a function of the tree,
\* hence the same on every run over it); a file that cannot be read is in
\* neither total; the walk is never stuck, and the run stays a passing one.
C10_LineCounts ==
  /\ \A c \in Range(Categories) :
       /\ Walked(c) =>
            counts[c] = [files |-> Cardinality(Eligible(c)),
                         lines |-> SumLines(Eligible(c))]
       /\ counts[c] # Zero =>
            /\ counts[c].files <= Cardinality(Eligible(c))
            /\ counts[c].lines <= SumLines(Eligible(c))
  /\ Walking =>
       /\ result = "True" /\ exit_status = -1
       /\ ENABLED (\E c \in Range(Categories) :
                     WalkDir(c) \/ WalkFile(c) \/ WalkEnd(c))
  /\ (Exited /\ InOut(StatsHeader)) =>
       (exit_status = 0 /\ InOut(PassedVerdict) /\ ~ InOut(FailedVerdict))

C10_Witness ==
  /\ Exited
  /\ result = "True"
  /\ entry_file \in fs.unreadable
  /\ fs.kind["lib/route_extract/generators/install_generator.rb"] = "file"
  /\ counts["lib"].files = Cardinality(Eligible("lib"))
  /\ counts["lib"].files = 11

====
